---- MODULE Spec2Model ----
(***************************************************************************)
(* Model of the Mustang effect compositor (packages/blitz-mustang):        *)
(* the effect model (effect.rs), the compositor entry point (lib.rs) and   *)
(* the shared element tracker (compositor/element_tracker.rs), the Region  *)
(* value type (compositor/region.rs) and the effect cache (lib.rs).        *)
(*                                                                         *)
(* Floating point coordinates and radii are modelled by the f32 values     *)
(* that are integers, time stamps by small integers; Option<T> is          *)
(* modelled by a sequence of length 0 (None) or 1 (Some).                  *)
(***************************************************************************)
EXTENDS Integers, Sequences, FiniteSets, TLC

VARIABLES
    eff,        \* effect.rs: the Effect value under construction (Option<Effect>)
    effects,    \* lib.rs: the caller's effect list, the `effects` argument of apply_scene_effects
    scene,      \* lib.rs: operations apply_scene_effects issued on the frame's `scene`
    result,     \* lib.rs: Some(SceneEffectResult) once apply_scene_effects returned for this frame
    elements,   \* element_tracker.rs: HashMap<String, TrackedElement> behind the mutex, as a set of <<key, value>> entries
    poisoned,   \* element_tracker.rs: the mutex is poisoned (a holder panicked)
    clock,      \* std::time::Instant::now(), monotonic
    last,       \* the last tracker call made by the single caller: operation, arguments, outcome
    live,       \* ids passed to track and not since removed (history of the calls)
    lock,       \* element_tracker.rs: the thread holding the mutex, 0 when it is free
    pc,         \* per thread: where it is in its tracker call
    call,       \* per thread: the tracker call in progress, with its arguments and return value
    rg,         \* region.rs: the Region operation under evaluation: operands and value returned
    effect_cache, \* lib.rs: MustangCompositor::effect_cache, HashMap<String, Vec<Effect>> as a set of <<key, value>> entries
    config,     \* lib.rs: MustangCompositor::config
    clast,      \* the last MustangCompositor call: operation, arguments, value returned, cache before
    stored,     \* per component, the list last passed to cache_effects since the last clear_cache (history of the calls)
    gating,     \* integration.rs: the SecurityGating value under construction and in use
    glast,      \* the last SecurityGating query: arguments and value returned
    fx          \* compositor/mod.rs: the feature list handed to features_to_effects and the list returned

vars == <<eff, effects, scene, result, elements, poisoned, clock, last, live, lock, pc, call,
          rg, effect_cache, config, clast, stored, gating, glast, fx>>

----------------------------------------------------------------------------
(* Bounds of the model *)

MaxEffects == 3     \* longest effect list passed to apply_scene_effects
MaxTime == 2        \* last clock reading
MaxAge == 1         \* largest max_age passed to cleanup_stale
MaxSecured == 2     \* most regions added with add_security_region
MaxFeatures == 2    \* longest feature list passed to features_to_effects

----------------------------------------------------------------------------
(* Option<T> *)

None == <<>>
Some(x) == <<x>>
IsSome(o) == o # <<>>

----------------------------------------------------------------------------
(* f32 on integer values.  An integer of magnitude below 2^24 is an f32    *)
(* value; a larger one is an f32 value when it is a multiple of the power  *)
(* of two that leaves 24 significant bits.  The result of an operation is  *)
(* the exact result rounded to the nearest f32 value, ties to the even     *)
(* significand.                                                            *)

F32Exact == 16777216   \* 2^24: every integer up to it is an f32 value

(* the spacing of the f32 values around the magnitude m *)
RECURSIVE ulp(_)
ulp(m) == IF m < F32Exact THEN 1 ELSE 2 * ulp(m \div 2)

round_magnitude(m) ==
    LET u == ulp(m)
        q == m \div u
        r == m % u
    IN  IF 2 * r < u THEN q * u
        ELSE IF 2 * r > u THEN (q + 1) * u
        ELSE IF q % 2 = 0 THEN q * u
        ELSE (q + 1) * u

f32(v) == IF v < 0 THEN 0 - round_magnitude(0 - v) ELSE round_magnitude(v)

fadd(a, b) == f32(a + b)
fsub(a, b) == f32(a - b)
fmul(a, b) == f32(a * b)
fmax(a, b) == IF a >= b THEN a ELSE b
fmin(a, b) == IF a <= b THEN a ELSE b

----------------------------------------------------------------------------
(* compositor/region.rs *)

Region(x, y, width, height) == [x |-> x, y |-> y, width |-> width, height |-> height]

(* kurbo::Rect::new(x, y, x + width, y + height) as built in apply_to_scene *)
RectOf(r) == [x0 |-> r.x, y0 |-> r.y, x1 |-> r.x + r.width, y1 |-> r.y + r.height]

(* mutant of contains: the upper bounds are inclusive *)
contains_closed(r, px, py) ==
    px >= r.x /\ px <= fadd(r.x, r.width) /\ py >= r.y /\ py <= fadd(r.y, r.height)

contains(r, px, py) ==
    px >= r.x /\ px < fadd(r.x, r.width) /\ py >= r.y /\ py < fadd(r.y, r.height)

(* mutant of expand: the padding is added to the size once *)
expand_once(r, padding) ==
    Region(fsub(r.x, padding), fsub(r.y, padding),
           fadd(r.width, padding), fadd(r.height, padding))

expand(r, padding) ==
    Region(fsub(r.x, padding), fsub(r.y, padding),
           fadd(r.width, fmul(padding, 2)), fadd(r.height, fmul(padding, 2)))

(* mutant of contract: the size is not clamped *)
contract_no_clamp(r, padding) ==
    Region(fadd(r.x, padding), fadd(r.y, padding),
           fsub(r.width, fmul(padding, 2)), fsub(r.height, fmul(padding, 2)))

contract(r, padding) ==
    Region(fadd(r.x, padding), fadd(r.y, padding),
           fmax(fsub(r.width, fmul(padding, 2)), 0), fmax(fsub(r.height, fmul(padding, 2)), 0))

(* mutant of intersects: rectangles that touch along an edge intersect *)
intersects_touching(r, other) ==
    ~(\/ r.x > fadd(other.x, other.width)
      \/ fadd(r.x, r.width) < other.x
      \/ r.y > fadd(other.y, other.height)
      \/ fadd(r.y, r.height) < other.y)

intersects(r, other) ==
    ~(\/ r.x >= fadd(other.x, other.width)
      \/ fadd(r.x, r.width) <= other.x
      \/ r.y >= fadd(other.y, other.height)
      \/ fadd(r.y, r.height) <= other.y)

(* mutant of intersection: the overlap is computed without the intersects test *)
intersection_unchecked(r, other) ==
    LET x1 == fmax(r.x, other.x)
        y1 == fmax(r.y, other.y)
        x2 == fmin(fadd(r.x, r.width), fadd(other.x, other.width))
        y2 == fmin(fadd(r.y, r.height), fadd(other.y, other.height))
    IN  Some(Region(x1, y1, fsub(x2, x1), fsub(y2, y1)))

intersection(r, other) ==
    IF ~intersects(r, other) THEN None
    ELSE LET x1 == fmax(r.x, other.x)
             y1 == fmax(r.y, other.y)
             x2 == fmin(fadd(r.x, r.width), fadd(other.x, other.width))
             y2 == fmin(fadd(r.y, r.height), fadd(other.y, other.height))
         IN  Some(Region(x1, y1, fsub(x2, x1), fsub(y2, y1)))

----------------------------------------------------------------------------
(* effect.rs: the effect model *)

EffectTypes == {"BackdropBlur", "Transform2D", "ColorAdjust", "Clip"}

ClipZIndex == 9999

BlurParamsOf(radius) == [radius |-> radius, passes |-> 2, quality |-> "High"]

TransformParamsDefault ==
    [scale_x |-> 1, scale_y |-> 1, translate_x |-> 0, translate_y |-> 0,
     rotate_degrees |-> 0, pivot_x |-> 5, pivot_y |-> 5]   \* pivot in tenths

ColorAdjustParamsDefault ==
    [red_multiplier |-> 1, green_multiplier |-> 1, blue_multiplier |-> 1,
     red_offset |-> 0, green_offset |-> 0, blue_offset |-> 0]

blur(selector, radius, viewport_width, viewport_height) ==
    [effect_type |-> "BackdropBlur",
     selector |-> selector,
     region |-> Region(0, 0, viewport_width, viewport_height),
     blur_params |-> Some(BlurParamsOf(radius)),
     transform_params |-> None,
     color_params |-> None,
     z_index |-> 0]

transform(selector, params, viewport_width, viewport_height) ==
    [effect_type |-> "Transform2D",
     selector |-> selector,
     region |-> Region(0, 0, viewport_width, viewport_height),
     blur_params |-> None,
     transform_params |-> Some(params),
     color_params |-> None,
     z_index |-> 0]

(* mutant of color_adjust: the parameters land in the blur field *)
color_adjust_wrong_field(selector, params) ==
    [effect_type |-> "ColorAdjust",
     selector |-> selector,
     region |-> Region(0, 0, 0, 0),
     blur_params |-> Some(params),
     transform_params |-> None,
     color_params |-> None,
     z_index |-> 0]

color_adjust(selector, params) ==
    [effect_type |-> "ColorAdjust",
     selector |-> selector,
     region |-> Region(0, 0, 0, 0),
     blur_params |-> None,
     transform_params |-> None,
     color_params |-> Some(params),
     z_index |-> 0]

clip(region) ==
    [effect_type |-> "Clip",
     selector |-> "",
     region |-> region,
     blur_params |-> None,
     transform_params |-> None,
     color_params |-> None,
     z_index |-> ClipZIndex]

with_region(e, region) == [e EXCEPT !.region = region]

with_z_index(e, z_index) == [e EXCEPT !.z_index = z_index]

(* mutant of is_native: Clip left out of the native kinds *)
is_native_no_clip(e) == e.effect_type \in {"BackdropBlur", "Transform2D"}

is_native(e) == e.effect_type \in {"BackdropBlur", "Transform2D", "Clip"}

requires_gpu_compute(e) == e.effect_type = "ColorAdjust"

(* ApplyEffect::apply_to_scene: the scene after the effect applied itself *)
apply_to_scene(e, sc) ==
    CASE e.effect_type = "BackdropBlur" ->
            IF IsSome(e.blur_params)
            THEN Append(sc, [op |-> "fill", rect |-> RectOf(e.region)])
            ELSE sc
      [] e.effect_type = "Transform2D" ->
            IF IsSome(e.transform_params)
            THEN Append(sc, [op |-> "push_layer", rect |-> RectOf(e.region),
                             transform |-> <<e.region, e.transform_params[1]>>])
            ELSE sc
      [] e.effect_type = "Clip" ->
            Append(sc, [op |-> "push_clip_layer", rect |-> RectOf(e.region)])
      [] e.effect_type = "ColorAdjust" -> sc

----------------------------------------------------------------------------
(* Inputs of the effect model *)

Selectors == {".glass", ".card"}
Radii == {0, 10}
Viewport == <<8, 6>>
Regions == {Region(0, 0, 4, 4), Region(2, 2, 4, 4), Region(4, 0, 2, 2)}
ZIndices == {-1, 5, 10000}
TransformInputs == {TransformParamsDefault, [TransformParamsDefault EXCEPT !.scale_x = 2, !.rotate_degrees = 90]}
ColorInputs == {ColorAdjustParamsDefault, [ColorAdjustParamsDefault EXCEPT !.red_multiplier = 2]}

(* Effect values a caller can hand to the compositor: the constructors,    *)
(* optionally followed by with_z_index, and, the fields being public,      *)
(* values whose kind and parameter fields disagree.                        *)
BuiltEffects ==
    {blur(s, 10, Viewport[1], Viewport[2]) : s \in Selectors}
    \cup {transform(s, TransformParamsDefault, Viewport[1], Viewport[2]) : s \in Selectors}
    \cup {color_adjust(s, ColorAdjustParamsDefault) : s \in Selectors}
    \cup {clip(Region(0, 0, 4, 4))}

LiteralEffects ==
    {[blur(".glass", 10, Viewport[1], Viewport[2]) EXCEPT !.blur_params = None],
     [transform(".card", TransformParamsDefault, Viewport[1], Viewport[2]) EXCEPT !.transform_params = None]}

EffectPool ==
    BuiltEffects \cup {with_z_index(e, 5) : e \in BuiltEffects} \cup LiteralEffects

----------------------------------------------------------------------------
(* lib.rs: MustangCompositor::apply_scene_effects *)

(* mutant of apply_effect: a native effect that drew nothing is not counted *)
apply_effect_count_drawn(acc, e) ==
    IF is_native(e)
    THEN [scene |-> apply_to_scene(e, acc.scene),
          native_applied |-> IF apply_to_scene(e, acc.scene) = acc.scene
                             THEN acc.native_applied ELSE acc.native_applied + 1,
          deferred |-> acc.deferred]
    ELSE [scene |-> acc.scene,
          native_applied |-> acc.native_applied,
          deferred |-> Append(acc.deferred, e)]

(* one iteration of the `for effect in effects` loop *)
apply_effect(acc, e) ==
    IF is_native(e)
    THEN [scene |-> apply_to_scene(e, acc.scene),
          native_applied |-> acc.native_applied + 1,
          deferred |-> acc.deferred]
    ELSE [scene |-> acc.scene,
          native_applied |-> acc.native_applied,
          deferred |-> Append(acc.deferred, e)]

RECURSIVE apply_loop(_, _)
apply_loop(acc, es) ==
    IF es = <<>> THEN acc ELSE apply_loop(apply_effect(acc, Head(es)), Tail(es))

RECURSIVE insert_by_z(_, _)
insert_by_z(e, sorted) ==
    IF sorted = <<>> THEN <<e>>
    ELSE IF e.z_index < Head(sorted).z_index THEN <<e>> \o sorted
    ELSE <<Head(sorted)>> \o insert_by_z(e, Tail(sorted))

RECURSIVE sort_by_z(_)
sort_by_z(es) ==
    IF es = <<>> THEN <<>> ELSE insert_by_z(es[Len(es)], sort_by_z(SubSeq(es, 1, Len(es) - 1)))

(* mutant of apply_scene_effects_run: the list is sorted by z_index first *)
apply_scene_effects_sorted(sc, es) ==
    apply_loop([scene |-> sc, native_applied |-> 0, deferred |-> <<>>], sort_by_z(es))

(* the whole call: the loop over `effects` from native_applied = 0, deferred = [] *)
apply_scene_effects_run(sc, es) ==
    apply_loop([scene |-> sc, native_applied |-> 0, deferred |-> <<>>], es)

(* the caller's frame: it assembles the effect list, calls               *)
(* apply_scene_effects on a fresh scene once, and starts the next frame  *)
PushEffect(e) ==
    /\ result = None
    /\ Len(effects) < MaxEffects
    /\ effects' = Append(effects, e)
    /\ UNCHANGED <<eff, scene, result, elements, poisoned, clock, last, live, lock, pc, call, rg, effect_cache, config, clast, stored, gating, glast, fx>>

apply_scene_effects ==
    /\ result = None
    /\ LET out == apply_scene_effects_run(<<>>, effects)
       IN  /\ scene' = out.scene
           /\ result' = Some([native_applied |-> out.native_applied,
                              deferred_effects |-> out.deferred])
    /\ clast' = [op |-> "apply_scene_effects", pre |-> effect_cache]
    /\ UNCHANGED <<eff, effects, elements, poisoned, clock, last, live, lock, pc, call, rg, effect_cache, config, stored, gating, glast, fx>>

NextFrame ==
    /\ IsSome(result)
    /\ effects' = <<>>
    /\ scene' = <<>>
    /\ result' = None
    /\ UNCHANGED <<eff, elements, poisoned, clock, last, live, lock, pc, call, rg, effect_cache, config, clast, stored, gating, glast, fx>>

----------------------------------------------------------------------------
(* effect.rs: building an Effect through the public constructors *)

Blur(selector, radius) ==
    /\ eff' = Some(blur(selector, radius, Viewport[1], Viewport[2]))
    /\ UNCHANGED <<effects, scene, result, elements, poisoned, clock, last, live, lock, pc, call, rg, effect_cache, config, clast, stored, gating, glast, fx>>

Transform(selector, params) ==
    /\ eff' = Some(transform(selector, params, Viewport[1], Viewport[2]))
    /\ UNCHANGED <<effects, scene, result, elements, poisoned, clock, last, live, lock, pc, call, rg, effect_cache, config, clast, stored, gating, glast, fx>>

ColorAdjust(selector, params) ==
    /\ eff' = Some(color_adjust(selector, params))
    /\ UNCHANGED <<effects, scene, result, elements, poisoned, clock, last, live, lock, pc, call, rg, effect_cache, config, clast, stored, gating, glast, fx>>

Clip(region) ==
    /\ eff' = Some(clip(region))
    /\ UNCHANGED <<effects, scene, result, elements, poisoned, clock, last, live, lock, pc, call, rg, effect_cache, config, clast, stored, gating, glast, fx>>

WithRegion(region) ==
    /\ IsSome(eff)
    /\ eff' = Some(with_region(eff[1], region))
    /\ UNCHANGED <<effects, scene, result, elements, poisoned, clock, last, live, lock, pc, call, rg, effect_cache, config, clast, stored, gating, glast, fx>>

WithZIndex(z_index) ==
    /\ IsSome(eff)
    /\ eff' = Some(with_z_index(eff[1], z_index))
    /\ UNCHANGED <<effects, scene, result, elements, poisoned, clock, last, live, lock, pc, call, rg, effect_cache, config, clast, stored, gating, glast, fx>>

----------------------------------------------------------------------------
(* compositor/element_tracker.rs: TrackedElement and the HashMap *)

Ids == {"a", "b"}
ElementKinds == {<<"div", <<>>>>, <<"div", <<"backdrop">>>>, <<"button", <<>>>>}   \* <<element_type, classes>>
TrackRegions == {Region(0, 0, 4, 4), Region(4, 0, 2, 2)}
QueryRegions == {Region(0, 0, 4, 4), Region(4, 0, 2, 2), Region(3, 1, 2, 2), Region(0, 4, 4, 1), Region(6, 2, 1, 1)}
Ages == 0..MaxAge

(* a selector string: its first character, the rest (&selector[1..]) and the whole string *)
Sel(first, rest, whole) == [first |-> first, rest |-> rest, whole |-> whole]
QuerySelectors ==
    {Sel("#", "a", "#a"), Sel("#", "b", "#b"), Sel(".", "backdrop", ".backdrop"),
     Sel("d", "iv", "div"), Sel("b", "utton", "button"), Sel("b", "", "b")}

TrackedElement(id, region, element_type, classes, last_updated) ==
    [id |-> id, region |-> region, element_type |-> element_type,
     classes |-> classes, last_updated |-> last_updated]

(* mutant of update_region: the timestamp is not refreshed *)
update_region_keep_time(e, region, now) ==
    [e EXCEPT !.region = region]

(* TrackedElement::update_region, `now` being Instant::now() *)
update_region(e, region, now) ==
    [e EXCEPT !.region = region, !.last_updated = now]

(* HashMap<String, TrackedElement> as a set of <<key, value>> entries *)
keys(m) == {en[1] : en \in m}
values(m) == {en[2] : en \in m}
contains_key(m, k) == \E en \in m : en[1] = k
map_get(m, k) == IF contains_key(m, k) THEN Some((CHOOSE en \in m : en[1] = k)[2]) ELSE None

(* mutant of map_remove: removing a stored key empties the map *)
map_remove_clears(m, k) == IF contains_key(m, k) THEN {} ELSE m

map_remove(m, k) == {en \in m : en[1] # k}

(* mutant of map_insert: the entry already stored under the key is kept *)
map_insert_keep_old(m, k, v) == m \cup {<<k, v>>}

map_insert(m, k, v) == map_remove(m, k) \cup {<<k, v>>}

(* mutant of map_update_region: an absent id gets a fresh entry *)
map_update_region_upsert(m, id, region, now) ==
    IF contains_key(m, id)
    THEN {IF en[1] = id THEN <<en[1], update_region(en[2], region, now)>> ELSE en : en \in m}
    ELSE m \cup {<<id, TrackedElement(id, region, "div", <<>>, now)>>}

(* HashMap::get_mut followed by update_region on the entry found *)
map_update_region(m, id, region, now) ==
    {IF en[1] = id THEN <<en[1], update_region(en[2], region, now)>> ELSE en : en \in m}

SeqContains(q, x) == \E i \in 1..Len(q) : q[i] = x

(* mutant of selector_matches: the class is compared with the selector, dot included *)
selector_matches_keep_dot(selector, e) ==
    IF selector.first = "#" THEN e.id = selector.rest
    ELSE IF selector.first = "." THEN SeqContains(e.classes, selector.whole)
    ELSE e.element_type = selector.whole

(* the filter closure of SharedElementTracker::query *)
selector_matches(selector, e) ==
    IF selector.first = "#" THEN e.id = selector.rest
    ELSE IF selector.first = "." THEN SeqContains(e.classes, selector.rest)
    ELSE e.element_type = selector.whole

(* what query collects from the map *)
query_of(m, selector) == {e \in values(m) : selector_matches(selector, e)}

(* mutant of query_region_of: an element is collected when its origin lies in the region *)
query_region_of_origin(m, qr) == {e \in values(m) : contains(qr, e.region.x, e.region.y)}

(* what query_region collects from the map *)
query_region_of(m, qr) == {e \in values(m) : intersects(e.region, qr)}

(* Instant::duration_since, which saturates to zero *)
duration_since(now, earlier) == IF now >= earlier THEN now - earlier ELSE 0

(* mutant of is_stale: an element exactly max_age old is stale too *)
is_stale_inclusive(now, e, max_age) == duration_since(now, e.last_updated) >= max_age

(* the filter closure of SharedElementTracker::cleanup_stale *)
is_stale(now, e, max_age) == duration_since(now, e.last_updated) > max_age

(* mutant of lock_ok: a poisoned lock is entered all the same *)
lock_ok_ignore_poison(p) == TRUE

(* Mutex::lock returns Ok unless the mutex is poisoned *)
lock_ok(p) == ~p

----------------------------------------------------------------------------
(* SharedElementTracker called from one thread: every call runs to its end *)

TrackerFrame == UNCHANGED <<eff, effects, scene, result, lock, pc, call, rg, effect_cache, config, clast, stored, gating, glast, fx>>

track(element) ==
    /\ elements' = IF lock_ok(poisoned)
                   THEN map_insert(elements, element.id, element)
                   ELSE elements
    /\ last' = [op |-> "track", ok |-> lock_ok(poisoned), element |-> element, pre |-> elements]
    /\ live' = live \cup {element.id}
    /\ UNCHANGED <<poisoned, clock>>
    /\ TrackerFrame

update_position(id, region) ==
    /\ elements' = IF lock_ok(poisoned)
                   THEN map_update_region(elements, id, region, clock)
                   ELSE elements
    /\ last' = [op |-> "update_position", ok |-> lock_ok(poisoned), id |-> id,
                region |-> region, now |-> clock, pre |-> elements]
    /\ UNCHANGED <<poisoned, clock, live>>
    /\ TrackerFrame

get(id) ==
    /\ last' = [op |-> "get", ok |-> lock_ok(poisoned), id |-> id,
                ret |-> IF lock_ok(poisoned) THEN map_get(elements, id) ELSE None]
    /\ UNCHANGED <<elements, poisoned, clock, live>>
    /\ TrackerFrame

query(selector) ==
    /\ last' = [op |-> "query", ok |-> lock_ok(poisoned), selector |-> selector,
                ret |-> IF lock_ok(poisoned) THEN query_of(elements, selector) ELSE {}]
    /\ UNCHANGED <<elements, poisoned, clock, live>>
    /\ TrackerFrame

query_region(qr) ==
    /\ last' = [op |-> "query_region", ok |-> lock_ok(poisoned), region |-> qr,
                ret |-> IF lock_ok(poisoned) THEN query_region_of(elements, qr) ELSE {}]
    /\ UNCHANGED <<elements, poisoned, clock, live>>
    /\ TrackerFrame

remove(id) ==
    /\ elements' = IF lock_ok(poisoned) THEN map_remove(elements, id) ELSE elements
    /\ last' = [op |-> "remove", ok |-> lock_ok(poisoned), id |-> id, pre |-> elements]
    /\ live' = live \ {id}
    /\ UNCHANGED <<poisoned, clock>>
    /\ TrackerFrame

clear ==
    /\ elements' = IF lock_ok(poisoned) THEN {} ELSE elements
    /\ last' = [op |-> "clear", ok |-> lock_ok(poisoned), pre |-> elements]
    /\ live' = {}
    /\ UNCHANGED <<poisoned, clock>>
    /\ TrackerFrame

len_of(m, p) == IF lock_ok(p) THEN Cardinality(m) ELSE 0

len ==
    /\ last' = [op |-> "len", ok |-> lock_ok(poisoned), ret |-> len_of(elements, poisoned)]
    /\ UNCHANGED <<elements, poisoned, clock, live>>
    /\ TrackerFrame

is_empty ==
    /\ last' = [op |-> "is_empty", ok |-> lock_ok(poisoned), ret |-> (len_of(elements, poisoned) = 0)]
    /\ UNCHANGED <<elements, poisoned, clock, live>>
    /\ TrackerFrame

ids ==
    /\ last' = [op |-> "ids", ok |-> lock_ok(poisoned),
                ret |-> IF lock_ok(poisoned) THEN keys(elements) ELSE {}]
    /\ UNCHANGED <<elements, poisoned, clock, live>>
    /\ TrackerFrame

(* the scan phase: ids of the entries older than max_age at `now` *)
to_remove_of(m, now, max_age) == {en[1] : en \in {x \in m : is_stale(now, x[2], max_age)}}

(* the removal phase: elements.remove(&id) for every id of to_remove *)
remove_all(m, to_remove) == {en \in m : en[1] \notin to_remove}

cleanup_stale(max_age) ==
    LET now == clock
        to_remove == to_remove_of(elements, now, max_age)
    IN  /\ elements' = IF lock_ok(poisoned) THEN remove_all(elements, to_remove) ELSE elements
        /\ last' = [op |-> "cleanup_stale", ok |-> lock_ok(poisoned), max_age |-> max_age,
                    now |-> now, pre |-> elements,
                    after |-> IF last.op = "update_position" THEN Some(<<last.id, last.now>>) ELSE None,
                    ret |-> IF lock_ok(poisoned) THEN Cardinality(to_remove) ELSE 0]
        /\ live' = IF lock_ok(poisoned) THEN live \ to_remove ELSE live
        /\ UNCHANGED <<poisoned, clock>>
        /\ TrackerFrame

(* time passes between two calls *)
Tick ==
    /\ clock < MaxTime
    /\ clock' = clock + 1
    /\ UNCHANGED <<elements, poisoned, last, live>>
    /\ TrackerFrame

(* a holder of the lock panics: the mutex stays poisoned from then on *)
Poison ==
    /\ ~poisoned
    /\ poisoned' = TRUE
    /\ last' = [op |-> "panic"]
    /\ UNCHANGED <<elements, clock, live>>
    /\ TrackerFrame

----------------------------------------------------------------------------
(* SharedElementTracker called from several threads through cloned        *)
(* handles: a call waits for the mutex, runs its body holding it, and     *)
(* releases it when the guard goes out of scope.                          *)

Threads == {1, 2}

NoCall == [op |-> "none"]

ConcIds == {"a"}          \* the id the threads contend on
ConcOtherIds == {"b"}     \* an id that is only tracked, so that queries return several elements
ConcKinds == {<<"div", <<>>>>, <<"button", <<"backdrop">>>>}
ConcSelectors == {Sel("#", "a", "#a"), Sel(".", "backdrop", ".backdrop"), Sel("d", "iv", "div")}
ConcQueryRegions == {Region(0, 0, 4, 4)}

ConcFrame == UNCHANGED <<eff, effects, scene, result, last, live, rg, effect_cache, config, clast, stored, gating, glast, fx>>

(* mutant of lock_free: the mutex is entered while another thread holds it *)
lock_free_always(l) == TRUE

(* Mutex::lock blocks until no thread holds the mutex *)
lock_free(l) == l = 0

(* the thread enters a tracker method; TrackedElement::new has read the clock *)
Invoke(t, c) ==
    /\ pc[t] = "idle"
    /\ pc' = [pc EXCEPT ![t] = "lock"]
    /\ call' = [call EXCEPT ![t] = c]
    /\ UNCHANGED <<elements, poisoned, clock, lock>>
    /\ ConcFrame

(* what a call returns when lock() fails *)
err_result(c) ==
    CASE c.op = "get" -> [c EXCEPT !.ret = None]
      [] c.op \in {"query", "query_region", "ids"} -> [c EXCEPT !.ret = {}]
      [] c.op \in {"len", "cleanup_stale"} -> [c EXCEPT !.ret = 0]
      [] OTHER -> c

first_step(c) ==
    CASE c.op = "track" -> "insert"
      [] c.op = "update_position" -> "set_region"
      [] c.op = "remove" -> "remove"
      [] c.op = "clear" -> "clear"
      [] c.op = "cleanup_stale" -> "scan"
      [] OTHER -> "read"

(* self.elements.lock() *)
Acquire(t) ==
    /\ pc[t] = "lock"
    /\ lock_free(lock)
    /\ IF lock_ok(poisoned)
       THEN /\ lock' = t
            /\ pc' = [pc EXCEPT ![t] = first_step(call[t])]
            /\ call' = call
       ELSE /\ lock' = lock
            /\ pc' = [pc EXCEPT ![t] = "done"]
            /\ call' = [call EXCEPT ![t] = err_result(call[t])]
    /\ UNCHANGED <<elements, poisoned, clock>>
    /\ ConcFrame

(* track: elements.insert(element.id.clone(), element), then the guard is dropped *)
TrackInsert(t) ==
    /\ pc[t] = "insert"
    /\ elements' = map_insert(elements, call[t].element.id, call[t].element)
    /\ lock' = 0
    /\ pc' = [pc EXCEPT ![t] = "done"]
    /\ UNCHANGED <<poisoned, clock, call>>
    /\ ConcFrame

(* update_position: get_mut(id), and in update_region `self.region = region` *)
UpdateSetRegion(t) ==
    /\ pc[t] = "set_region"
    /\ IF contains_key(elements, call[t].id)
       THEN /\ elements' = {IF en[1] = call[t].id
                            THEN <<en[1], [en[2] EXCEPT !.region = call[t].region]>>
                            ELSE en : en \in elements}
            /\ pc' = [pc EXCEPT ![t] = "set_time"]
            /\ lock' = lock
       ELSE /\ elements' = elements
            /\ pc' = [pc EXCEPT ![t] = "done"]
            /\ lock' = 0
    /\ UNCHANGED <<poisoned, clock, call>>
    /\ ConcFrame

(* update_region: `self.last_updated = Instant::now()`, then the guard is dropped *)
UpdateSetTime(t) ==
    /\ pc[t] = "set_time"
    /\ elements' = {IF en[1] = call[t].id
                    THEN <<en[1], [en[2] EXCEPT !.last_updated = clock]>>
                    ELSE en : en \in elements}
    /\ lock' = 0
    /\ pc' = [pc EXCEPT ![t] = "done"]
    /\ UNCHANGED <<poisoned, clock, call>>
    /\ ConcFrame

read_result(c, m) ==
    CASE c.op = "get" -> map_get(m, c.id)
      [] c.op = "query" -> query_of(m, c.selector)
      [] c.op = "query_region" -> query_region_of(m, c.region)
      [] c.op = "len" -> Cardinality(m)
      [] c.op = "ids" -> keys(m)

(* get, query, query_region: clone what the map holds, then the guard is dropped *)
Read(t) ==
    /\ pc[t] = "read"
    /\ call' = [call EXCEPT ![t].ret = read_result(call[t], elements)]
    /\ lock' = 0
    /\ pc' = [pc EXCEPT ![t] = "done"]
    /\ UNCHANGED <<elements, poisoned, clock>>
    /\ ConcFrame

(* the call returns to the thread *)
Return(t) ==
    /\ pc[t] = "done"
    /\ pc' = [pc EXCEPT ![t] = "idle"]
    /\ call' = [call EXCEPT ![t] = NoCall]
    /\ UNCHANGED <<elements, poisoned, clock, lock>>
    /\ ConcFrame

(* remove: elements.remove(id), then the guard is dropped *)
RemoveEntry(t) ==
    /\ pc[t] = "remove"
    /\ elements' = map_remove(elements, call[t].id)
    /\ lock' = 0
    /\ pc' = [pc EXCEPT ![t] = "done"]
    /\ UNCHANGED <<poisoned, clock, call>>
    /\ ConcFrame

(* clear: elements.clear(), then the guard is dropped *)
ClearEntries(t) ==
    /\ pc[t] = "clear"
    /\ elements' = {}
    /\ lock' = 0
    /\ pc' = [pc EXCEPT ![t] = "done"]
    /\ UNCHANGED <<poisoned, clock, call>>
    /\ ConcFrame

(* mutant of lock_after_scan: the guard of the scan is still alive at the second lock() *)
lock_after_scan_held(t) == t

(* cleanup_stale: the guard of the scan is dropped at the end of its block *)
lock_after_scan(t) == 0

(* cleanup_stale, first block: the stale ids are collected and counted *)
ScanStale(t) ==
    /\ pc[t] = "scan"
    /\ LET to_remove == to_remove_of(elements, call[t].now, call[t].max_age)
       IN  call' = [call EXCEPT ![t].to_remove = to_remove, ![t].ret = Cardinality(to_remove)]
    /\ lock' = lock_after_scan(t)
    /\ pc' = [pc EXCEPT ![t] = "lock2"]
    /\ UNCHANGED <<elements, poisoned, clock>>
    /\ ConcFrame

(* cleanup_stale: the second self.elements.lock() *)
AcquireAgain(t) ==
    /\ pc[t] = "lock2"
    /\ lock_free(lock)
    /\ IF lock_ok(poisoned)
       THEN /\ lock' = t
            /\ pc' = [pc EXCEPT ![t] = "remove_all"]
       ELSE /\ lock' = lock
            /\ pc' = [pc EXCEPT ![t] = "done"]
    /\ UNCHANGED <<elements, poisoned, clock, call>>
    /\ ConcFrame

(* cleanup_stale, second block: elements.remove(&id) for every collected   *)
(* id; `removed` and `removed_at` keep what the map lost and when          *)
RemoveStale(t) ==
    /\ pc[t] = "remove_all"
    /\ elements' = remove_all(elements, call[t].to_remove)
    /\ call' = [call EXCEPT ![t].removed = elements \ remove_all(elements, call[t].to_remove),
                            ![t].removed_at = clock]
    /\ lock' = 0
    /\ pc' = [pc EXCEPT ![t] = "done"]
    /\ UNCHANGED <<poisoned, clock>>
    /\ ConcFrame

(* the thread panics while it holds the lock: its call unwinds, the guard *)
(* is dropped and the mutex stays poisoned                                *)
ConcPoison(t) ==
    /\ lock = t
    /\ poisoned' = TRUE
    /\ lock' = 0
    /\ pc' = [pc EXCEPT ![t] = "idle"]
    /\ call' = [call EXCEPT ![t] = NoCall]
    /\ UNCHANGED <<elements, clock>>
    /\ ConcFrame

ConcTick ==
    /\ clock < MaxTime
    /\ clock' = clock + 1
    /\ UNCHANGED <<elements, poisoned, lock, pc, call>>
    /\ ConcFrame

ConcCalls ==
    {[op |-> "track", element |-> TrackedElement(id, r, k[1], k[2], clock)] :
        id \in ConcIds, r \in TrackRegions, k \in ConcKinds}
    \cup {[op |-> "track", element |-> TrackedElement(id, Region(0, 0, 4, 4), "div", <<>>, clock)] :
        id \in ConcOtherIds}
    \cup {[op |-> "update_position", id |-> id, region |-> r] : id \in ConcIds, r \in TrackRegions}
    \cup {[op |-> "get", id |-> id, ret |-> None] : id \in ConcIds}
    \cup {[op |-> "query", selector |-> sel, ret |-> {}] : sel \in ConcSelectors}
    \cup {[op |-> "query_region", region |-> r, ret |-> {}] : r \in ConcQueryRegions}

(* every tracker method, on one id *)
CleanupAges == {0}
AllCalls ==
    {[op |-> "track", element |-> TrackedElement(id, Region(0, 0, 4, 4), "div", <<>>, clock)] :
        id \in ConcIds}
    \cup {[op |-> "update_position", id |-> id, region |-> Region(0, 0, 4, 4)] : id \in ConcIds}
    \cup {[op |-> "get", id |-> id, ret |-> None] : id \in ConcIds}
    \cup {[op |-> "query", selector |-> Sel("d", "iv", "div"), ret |-> {}]}
    \cup {[op |-> "query_region", region |-> r, ret |-> {}] : r \in ConcQueryRegions}
    \cup {[op |-> "remove", id |-> id] : id \in ConcIds}
    \cup {[op |-> "clear"], [op |-> "len", ret |-> 0], [op |-> "ids", ret |-> {}]}
    \cup {[op |-> "cleanup_stale", max_age |-> a, now |-> clock, to_remove |-> {}, ret |-> 0,
           removed |-> {}, removed_at |-> clock] : a \in CleanupAges}

----------------------------------------------------------------------------

(* compositor/region.rs: the Region operations applied to operands drawn  *)
(* from the f32 values below, one expression at a time                   *)

RegionXs == {0, 1, 2, F32Exact}
RegionYs == {0, 1}
RegionWidths == {-2, 0, 1, 4, 10, F32Exact + 2}
RegionHeights == {0, 2, 10}
RegionInputs ==
    {Region(x, y, w, h) : x \in RegionXs, y \in RegionYs, w \in RegionWidths, h \in RegionHeights}
Paddings == {-1, 0, 1, 2, 3}
PointXs == {-1, 0, 1, 2, 4, F32Exact}
PointYs == {0, 1, 2}

RegionFrame ==
    UNCHANGED <<eff, effects, scene, result, elements, poisoned, clock, last, live, lock, pc, call,
                effect_cache, config, clast, stored, gating, glast, fx>>

RegionIntersects(a, b) ==
    /\ rg.op = "none"
    /\ rg' = [op |-> "intersects", a |-> a, b |-> b, ret |-> intersects(a, b)]
    /\ RegionFrame

RegionIntersection(a, b) ==
    /\ rg.op = "none"
    /\ rg' = [op |-> "intersection", a |-> a, b |-> b, ret |-> intersection(a, b)]
    /\ RegionFrame

(* i.intersection(i) for the overlap i just returned *)
RegionSelfIntersection ==
    /\ rg.op = "intersection"
    /\ IsSome(rg.ret)
    /\ rg' = [op |-> "self_intersection", a |-> rg.a, b |-> rg.b, i |-> rg.ret[1],
              ret |-> intersection(rg.ret[1], rg.ret[1])]
    /\ RegionFrame

RegionContract(a, padding) ==
    /\ rg.op = "none"
    /\ rg' = [op |-> "contract", a |-> a, padding |-> padding, ret |-> contract(a, padding)]
    /\ RegionFrame

(* a.contract(padding).expand(padding) for the contraction just returned *)
RegionExpand ==
    /\ rg.op = "contract"
    /\ rg' = [op |-> "contract_expand", a |-> rg.a, padding |-> rg.padding,
              ret |-> expand(rg.ret, rg.padding)]
    /\ RegionFrame

RegionContains(a, px, py) ==
    /\ rg.op = "none"
    /\ rg' = [op |-> "contains", a |-> a, px |-> px, py |-> py, ret |-> contains(a, px, py)]
    /\ RegionFrame

(* the caller drops the value and evaluates the next expression *)
RegionDone ==
    /\ rg.op # "none"
    /\ rg' = [op |-> "none"]
    /\ RegionFrame

(* &str operations used by compositor/mod.rs; a string is a TLA+ string,   *)
(* its bytes are numbered from 0 as in Rust                               *)

char_at(s, i) == SubSeq(s, i + 1, i + 1)
str_from(s, i) == SubSeq(s, i + 1, Len(s))
str_to(s, i) == SubSeq(s, 1, i)
starts_with(s, pat) == Len(pat) <= Len(s) /\ SubSeq(s, 1, Len(pat)) = pat
ends_with(s, pat) == Len(pat) <= Len(s) /\ SubSeq(s, Len(s) - Len(pat) + 1, Len(s)) = pat

(* str::find: the offset of the first occurrence *)
RECURSIVE find_from(_, _, _)
find_from(s, pat, i) ==
    IF i + Len(pat) > Len(s) THEN None
    ELSE IF SubSeq(s, i + 1, i + Len(pat)) = pat THEN Some(i)
    ELSE find_from(s, pat, i + 1)

find(s, pat) == find_from(s, pat, 0)

RECURSIVE trim_start(_)
trim_start(s) == IF starts_with(s, " ") THEN trim_start(str_from(s, 1)) ELSE s

RECURSIVE trim_end(_)
trim_end(s) == IF ends_with(s, " ") THEN trim_end(str_to(s, Len(s) - 1)) ELSE s

trim(s) == trim_end(trim_start(s))

(* str::trim_end_matches: every repetition of the pattern at the end is removed *)
RECURSIVE trim_end_matches(_, _)
trim_end_matches(s, pat) ==
    IF ends_with(s, pat) THEN trim_end_matches(str_to(s, Len(s) - Len(pat)), pat) ELSE s

(* str::split(',') collected *)
RECURSIVE split(_, _)
split(s, sep) ==
    LET at == find(s, sep)
    IN  IF at = None THEN <<s>>
        ELSE <<str_to(s, at[1])>> \o split(str_from(s, at[1] + Len(sep)), sep)

Digits == {"0", "1", "2", "3", "4", "5", "6", "7", "8", "9"}

digit_value(c) ==
    CASE c = "0" -> 0 [] c = "1" -> 1 [] c = "2" -> 2 [] c = "3" -> 3 [] c = "4" -> 4
      [] c = "5" -> 5 [] c = "6" -> 6 [] c = "7" -> 7 [] c = "8" -> 8 [] c = "9" -> 9

all_digits(s) == \A i \in 0..(Len(s) - 1) : char_at(s, i) \in Digits

RECURSIVE decimal_value(_)
decimal_value(s) ==
    IF s = "" THEN 0
    ELSE 10 * decimal_value(str_to(s, Len(s) - 1)) + digit_value(char_at(s, Len(s) - 1))

(* str::parse::<f32> on the texts of the model: an optional sign and       *)
(* decimal digits; any other text built from the model's inputs is an Err  *)
parse_f32(s) ==
    LET body == IF starts_with(s, "-") \/ starts_with(s, "+") THEN str_from(s, 1) ELSE s
    IN  IF body = "" \/ ~all_digits(body) THEN None
        ELSE IF starts_with(s, "-") THEN Some(0 - decimal_value(body))
        ELSE Some(decimal_value(body))

unwrap_or(o, default) == IF IsSome(o) THEN o[1] ELSE default

----------------------------------------------------------------------------
(* compositor/mod.rs: feature extraction *)

DefaultBlurAmount == 10

(* mutant of parse_blur_amount: the text between the parentheses is parsed as it is *)
parse_blur_amount_as_is(value) ==
    LET start == find(value, "blur(")
    IN  IF start = None THEN DefaultBlurAmount
        ELSE LET after == str_from(value, start[1] + 5)
                 end == find(after, ")")
             IN  IF end = None THEN DefaultBlurAmount
                 ELSE unwrap_or(parse_f32(str_to(after, end[1])), DefaultBlurAmount)

parse_blur_amount(value) ==
    LET start == find(value, "blur(")
    IN  IF start = None THEN DefaultBlurAmount
        ELSE LET after == str_from(value, start[1] + 5)
                 end == find(after, ")")
             IN  IF end = None THEN DefaultBlurAmount
                 ELSE LET num_str == str_to(after, end[1])
                          num == trim(trim_end_matches(trim(num_str), "px"))
                      IN  unwrap_or(parse_f32(num), DefaultBlurAmount)

(* the text between a token and the next ")" after it, if both are there *)
argument_of(value, token) ==
    LET start == find(value, token)
    IN  IF start = None THEN None
        ELSE LET after == str_from(value, start[1] + Len(token))
                 end == find(after, ")")
             IN  IF end = None THEN None ELSE Some(str_to(after, end[1]))

parse_transform(value) ==
    LET scale == argument_of(value, "scale(")
        translate == argument_of(value, "translate(")
        rotate == argument_of(value, "rotate(")
        p1 == IF IsSome(scale) /\ IsSome(parse_f32(scale[1]))
              THEN [TransformParamsDefault EXCEPT !.scale_x = parse_f32(scale[1])[1],
                                                  !.scale_y = parse_f32(scale[1])[1]]
              ELSE TransformParamsDefault
        parts == IF IsSome(translate) THEN split(translate[1], ",") ELSE <<>>
        p2 == IF Len(parts) >= 1
              THEN [p1 EXCEPT !.translate_x =
                        unwrap_or(parse_f32(trim_end_matches(trim(parts[1]), "px")), 0)]
              ELSE p1
        p3 == IF Len(parts) >= 2
              THEN [p2 EXCEPT !.translate_y =
                        unwrap_or(parse_f32(trim_end_matches(trim(parts[2]), "px")), 0)]
              ELSE p2
    IN  IF IsSome(rotate)
        THEN [p3 EXCEPT !.rotate_degrees =
                  unwrap_or(parse_f32(trim_end_matches(trim(rotate[1]), "deg")), 0)]
        ELSE p3

parse_color_adjust(value) ==
    LET brightness == argument_of(value, "brightness(")
    IN  IF IsSome(brightness) /\ IsSome(parse_f32(brightness[1]))
        THEN [ColorAdjustParamsDefault EXCEPT !.red_multiplier = parse_f32(brightness[1])[1],
                                              !.green_multiplier = parse_f32(brightness[1])[1],
                                              !.blue_multiplier = parse_f32(brightness[1])[1]]
        ELSE ColorAdjustParamsDefault

parse_clip_region(value, viewport_width, viewport_height) ==
    Region(0, 0, viewport_width, viewport_height)

SyntheticFeature(feature_type, selector, original_value) ==
    [feature_type |-> feature_type, selector |-> selector, original_value |-> original_value]

(* mutant of effect_from_feature: a backdrop filter without a blur( token gives no effect *)
effect_from_feature_strict(feature, viewport_width, viewport_height) ==
    CASE feature.feature_type = "BackdropFilter" ->
            IF find(feature.original_value, "blur(") = None THEN None
            ELSE Some(blur(feature.selector, parse_blur_amount(feature.original_value),
                           viewport_width, viewport_height))
      [] feature.feature_type = "Transform" ->
            Some(transform(feature.selector, parse_transform(feature.original_value),
                           viewport_width, viewport_height))
      [] feature.feature_type = "ColorAdjust" ->
            Some(color_adjust(feature.selector, parse_color_adjust(feature.original_value)))
      [] feature.feature_type = "Clip" ->
            Some(clip(parse_clip_region(feature.original_value, viewport_width, viewport_height)))

effect_from_feature(feature, viewport_width, viewport_height) ==
    CASE feature.feature_type = "BackdropFilter" ->
            Some(blur(feature.selector, parse_blur_amount(feature.original_value),
                      viewport_width, viewport_height))
      [] feature.feature_type = "Transform" ->
            Some(transform(feature.selector, parse_transform(feature.original_value),
                           viewport_width, viewport_height))
      [] feature.feature_type = "ColorAdjust" ->
            Some(color_adjust(feature.selector, parse_color_adjust(feature.original_value)))
      [] feature.feature_type = "Clip" ->
            Some(clip(parse_clip_region(feature.original_value, viewport_width, viewport_height)))

(* the loop of features_to_effects: an effect is pushed for each Some *)
RECURSIVE features_to_effects(_, _, _)
features_to_effects(features, viewport_width, viewport_height) ==
    IF features = <<>> THEN <<>>
    ELSE effect_from_feature(Head(features), viewport_width, viewport_height)
            \o features_to_effects(Tail(features), viewport_width, viewport_height)

(* raw values of backdrop-filter features *)
BlurValues ==
    {open \o lead \o num \o mid \o suffix \o close :
        open \in {"blur(", "blu("}, lead \in {"", " "}, num \in {"10", "-5", "bogus", ""},
        mid \in {"", " "}, suffix \in {"", "px", "pxpx", "px px"},
        close \in {")", "", " ) blur(7px)"}}
    \cup {"backdrop-filter: blur(10px)", "backdrop-filter: blur(bogus)", "none", ""}

(* the features a list continues with *)
FeaturePool ==
    {SyntheticFeature("BackdropFilter", ".glass", "backdrop-filter: blur(5px)"),
     SyntheticFeature("BackdropFilter", ".card", "backdrop-filter: blur(bogus)"),
     SyntheticFeature("Transform", ".card", "transform: scale(2) rotate(90deg)"),
     SyntheticFeature("Transform", ".glass", "translate(10px, bad) scale( 2)"),
     SyntheticFeature("ColorAdjust", ".glass", "brightness(2)"),
     SyntheticFeature("ColorAdjust", ".card", "brightness(x"),
     SyntheticFeature("Clip", "", "inset(1px)")}

(* the features a list starts with *)
FirstFeatures ==
    FeaturePool \cup {SyntheticFeature("BackdropFilter", ".glass", v) : v \in BlurValues}

NextFeatures == IF fx.ret # None THEN {} ELSE IF fx.features = <<>> THEN FirstFeatures ELSE FeaturePool

FeatureFrame ==
    UNCHANGED <<eff, effects, scene, result, elements, poisoned, clock, last, live, lock, pc, call,
                rg, effect_cache, config, clast, stored, gating, glast>>

(* the caller assembles the feature list *)
PushFeature(f) ==
    /\ fx.ret = None
    /\ Len(fx.features) < MaxFeatures
    /\ fx' = [fx EXCEPT !.features = Append(@, f)]
    /\ FeatureFrame

FeaturesToEffects ==
    /\ fx.ret = None
    /\ fx' = [fx EXCEPT !.ret = Some(features_to_effects(fx.features, Viewport[1], Viewport[2]))]
    /\ FeatureFrame

(* the caller drops the lists and starts the next one *)
FeaturesDone ==
    /\ fx.ret # None
    /\ fx' = [features |-> <<>>, ret |-> None]
    /\ FeatureFrame

----------------------------------------------------------------------------
(* compositor/integration.rs: SecurityGating *)

SecurityGatingNew == [enabled |-> TRUE, security_regions |-> <<>>]

SecuredRegions == {Region(0, 0, 4, 4), Region(4, 0, 2, 2), Region(2, 2, 0, 3)}
SecuredXs == {0, 2, 4, 5, 6}
SecuredYs == {0, 1, 2, 4}

(* mutant of is_point_secured_of: nothing is secured while gating is disabled *)
is_point_secured_when_enabled(g, x, y) ==
    g.enabled /\ \E i \in DOMAIN g.security_regions : contains(g.security_regions[i], x, y)

(* self.security_regions.iter().any(|region| region.contains(x, y)) *)
is_point_secured_of(g, x, y) ==
    \E i \in DOMAIN g.security_regions : contains(g.security_regions[i], x, y)

(* mutant of get_intersecting_regions_of: the regions containing the area's origin *)
get_intersecting_regions_origin(g, area) ==
    SelectSeq(g.security_regions, LAMBDA r : contains(r, area.x, area.y))

get_intersecting_regions_of(g, area) ==
    SelectSeq(g.security_regions, LAMBDA r : intersects(r, area))

GatingFrame ==
    UNCHANGED <<eff, effects, scene, result, elements, poisoned, clock, last, live, lock, pc, call,
                rg, effect_cache, config, clast, stored, fx>>

SecurityGating_new ==
    /\ gating' = SecurityGatingNew
    /\ glast' = [op |-> "new"]
    /\ GatingFrame

enabled(b) ==
    /\ gating' = [gating EXCEPT !.enabled = b]
    /\ UNCHANGED glast
    /\ GatingFrame

add_security_region(region) ==
    /\ Len(gating.security_regions) < MaxSecured
    /\ gating' = [gating EXCEPT !.security_regions = Append(@, region)]
    /\ UNCHANGED glast
    /\ GatingFrame

is_point_secured(x, y) ==
    /\ glast' = [op |-> "is_point_secured", self |-> gating, x |-> x, y |-> y,
                 ret |-> is_point_secured_of(gating, x, y)]
    /\ UNCHANGED gating
    /\ GatingFrame

get_intersecting_regions(area) ==
    /\ glast' = [op |-> "get_intersecting_regions", self |-> gating, area |-> area,
                 ret |-> get_intersecting_regions_of(gating, area)]
    /\ UNCHANGED gating
    /\ GatingFrame

(* config.rs *)
MustangConfigDefault ==
    [mode |-> "GpuAccelerated", enable_caching |-> TRUE, max_cache_size |-> 1000,
     enable_debug |-> FALSE, gpu_device |-> None]

(* the configurations set_config is called with, built by the MustangConfig builder *)
Configs ==
    {MustangConfigDefault,
     [MustangConfigDefault EXCEPT !.max_cache_size = 1],
     [MustangConfigDefault EXCEPT !.mode = "CpuOnly", !.enable_caching = FALSE]}

Components == {"c1", "c2"}

(* the effect lists cache_effects is called with *)
CacheLists ==
    {<<>>,
     <<blur(".glass", 10, Viewport[1], Viewport[2])>>,
     <<color_adjust(".card", ColorAdjustParamsDefault), clip(Region(0, 0, 4, 4))>>}

(* lib.rs: the effect cache of MustangCompositor *)

(* mutant of cache_insert: a component that has a cached list keeps it *)
cache_insert_keep_old(cache, component_id, es) ==
    IF contains_key(cache, component_id) THEN cache ELSE cache \cup {<<component_id, es>>}

(* self.effect_cache.insert(component_id.to_string(), effects) *)
cache_insert(cache, component_id, es) == map_insert(cache, component_id, es)

CacheFrame ==
    UNCHANGED <<eff, effects, scene, result, elements, poisoned, clock, last, live, lock, pc, call, rg, gating, glast, fx>>

cache_effects(component_id, es) ==
    /\ effect_cache' = cache_insert(effect_cache, component_id, es)
    /\ clast' = [op |-> "cache_effects", component_id |-> component_id, effects |-> es,
                 pre |-> effect_cache]
    /\ stored' = [stored EXCEPT ![component_id] = Some(es)]
    /\ UNCHANGED config
    /\ CacheFrame

get_cached_effects(component_id) ==
    /\ clast' = [op |-> "get_cached_effects", component_id |-> component_id,
                 ret |-> map_get(effect_cache, component_id), pre |-> effect_cache]
    /\ UNCHANGED <<effect_cache, config, stored>>
    /\ CacheFrame

clear_cache ==
    /\ effect_cache' = {}
    /\ clast' = [op |-> "clear_cache", pre |-> effect_cache]
    /\ stored' = [c \in Components |-> None]
    /\ UNCHANGED config
    /\ CacheFrame

set_config(cfg) ==
    /\ config' = cfg
    /\ clast' = [op |-> "set_config", config |-> cfg, pre |-> effect_cache]
    /\ UNCHANGED <<effect_cache, stored>>
    /\ CacheFrame

get_stats ==
    /\ clast' = [op |-> "get_stats",
                 ret |-> [cached_components |-> Cardinality(effect_cache), mode |-> config.mode],
                 pre |-> effect_cache]
    /\ UNCHANGED <<effect_cache, config, stored>>
    /\ CacheFrame

(* the caller takes the list cached for a component as the frame's effect list *)
TakeCached(component_id) ==
    /\ result = None
    /\ IsSome(map_get(effect_cache, component_id))
    /\ effects' = map_get(effect_cache, component_id)[1]
    /\ UNCHANGED <<eff, scene, result, elements, poisoned, clock, last, live, lock, pc, call,
                   rg, effect_cache, config, clast, stored, gating, glast, fx>>

Init ==
    /\ eff = None
    /\ effects = <<>>
    /\ scene = <<>>
    /\ result = None
    /\ elements = {}
    /\ poisoned = FALSE
    /\ clock = 0
    /\ last = [op |-> "new"]
    /\ live = {}
    /\ lock = 0
    /\ pc = [t \in Threads |-> "idle"]
    /\ call = [t \in Threads |-> NoCall]
    /\ rg = [op |-> "none"]
    /\ effect_cache = {}
    /\ config = MustangConfigDefault
    /\ clast = [op |-> "new"]
    /\ stored = [c \in Components |-> None]
    /\ gating = SecurityGatingNew
    /\ glast = [op |-> "new"]
    /\ fx = [features |-> <<>>, ret |-> None]

NextEffect ==
    \/ \E s \in Selectors, r \in Radii : Blur(s, r)
    \/ \E s \in Selectors, p \in TransformInputs : Transform(s, p)
    \/ \E s \in Selectors, p \in ColorInputs : ColorAdjust(s, p)
    \/ \E r \in Regions : Clip(r)
    \/ \E r \in Regions : WithRegion(r)
    \/ \E z \in ZIndices : WithZIndex(z)

SpecEffect == Init /\ [][NextEffect]_vars

(* the caller tracks TrackedElement::new(..).with_class(..), built at the current clock reading *)
Next ==
    \/ \E id \in Ids, r \in TrackRegions, k \in ElementKinds :
          track(TrackedElement(id, r, k[1], k[2], clock))
    \/ \E id \in Ids, r \in TrackRegions : update_position(id, r)
    \/ \E id \in Ids : get(id)
    \/ \E sel \in QuerySelectors : query(sel)
    \/ \E r \in QueryRegions : query_region(r)
    \/ \E id \in Ids : remove(id)
    \/ clear
    \/ len
    \/ is_empty
    \/ ids
    \/ \E a \in Ages : cleanup_stale(a)
    \/ Tick
    \/ Poison

Spec == Init /\ [][Next]_vars

NextConc ==
    \/ \E t \in Threads, c \in ConcCalls : Invoke(t, c)
    \/ \E t \in Threads : Acquire(t)
    \/ \E t \in Threads : TrackInsert(t)
    \/ \E t \in Threads : UpdateSetRegion(t)
    \/ \E t \in Threads : UpdateSetTime(t)
    \/ \E t \in Threads : Read(t)
    \/ \E t \in Threads : Return(t)
    \/ ConcTick

SpecConc == Init /\ [][NextConc]_vars

NextAll ==
    \/ \E t \in Threads, c \in AllCalls : Invoke(t, c)
    \/ \E t \in Threads : Acquire(t)
    \/ \E t \in Threads : TrackInsert(t)
    \/ \E t \in Threads : UpdateSetRegion(t)
    \/ \E t \in Threads : UpdateSetTime(t)
    \/ \E t \in Threads : Read(t)
    \/ \E t \in Threads : RemoveEntry(t)
    \/ \E t \in Threads : ClearEntries(t)
    \/ \E t \in Threads : ScanStale(t)
    \/ \E t \in Threads : AcquireAgain(t)
    \/ \E t \in Threads : RemoveStale(t)
    \/ \E t \in Threads : Return(t)
    \/ ConcTick
    \/ \E t \in Threads : ConcPoison(t)

SpecAll == Init /\ [][NextAll]_vars

(* fair scheduling: a thread inside a call keeps running, and a thread     *)
(* waiting for the mutex gets it if it is free again and again             *)
FairAll ==
    \A t \in Threads :
        /\ SF_vars(Acquire(t))
        /\ SF_vars(AcquireAgain(t))
        /\ WF_vars(TrackInsert(t))
        /\ WF_vars(UpdateSetRegion(t))
        /\ WF_vars(UpdateSetTime(t))
        /\ WF_vars(Read(t))
        /\ WF_vars(RemoveEntry(t))
        /\ WF_vars(ClearEntries(t))
        /\ WF_vars(ScanStale(t))
        /\ WF_vars(RemoveStale(t))
        /\ WF_vars(Return(t))

SpecAllFair == Init /\ [][NextAll]_vars /\ FairAll

(* operands are drawn when the next expression is started *)
Operands == IF rg.op = "none" THEN RegionInputs ELSE {}

NextRegion ==
    \/ \E a \in Operands, b \in Operands : RegionIntersects(a, b)
    \/ \E a \in Operands, b \in Operands : RegionIntersection(a, b)
    \/ RegionSelfIntersection
    \/ \E a \in Operands, p \in Paddings : RegionContract(a, p)
    \/ RegionExpand
    \/ \E a \in Operands, px \in PointXs, py \in PointYs : RegionContains(a, px, py)
    \/ RegionDone

SpecRegion == Init /\ [][NextRegion]_vars

NextCache ==
    \/ \E c \in Components, es \in CacheLists : cache_effects(c, es)
    \/ \E c \in Components : get_cached_effects(c)
    \/ clear_cache
    \/ \E cfg \in Configs : set_config(cfg)
    \/ get_stats
    \/ \E c \in Components : TakeCached(c)
    \/ apply_scene_effects
    \/ NextFrame

SpecCache == Init /\ [][NextCache]_vars

NextFeature ==
    \/ \E f \in NextFeatures : PushFeature(f)
    \/ FeaturesToEffects
    \/ FeaturesDone

SpecFeature == Init /\ [][NextFeature]_vars

NextGating ==
    \/ SecurityGating_new
    \/ \E b \in BOOLEAN : enabled(b)
    \/ \E r \in SecuredRegions : add_security_region(r)
    \/ \E x \in SecuredXs, y \in SecuredYs : is_point_secured(x, y)
    \/ \E a \in SecuredRegions : get_intersecting_regions(a)

SpecGating == Init /\ [][NextGating]_vars

NextCompositor ==
    \/ \E e \in EffectPool : PushEffect(e)
    \/ apply_scene_effects
    \/ NextFrame

SpecCompositor == Init /\ [][NextCompositor]_vars

----------------------------------------------------------------------------
(* Claims about the compositor, checked under SpecCompositor *)

NativeIndices == {i \in 1..Len(effects) : is_native(effects[i])}
DeferredIndices == {i \in 1..Len(effects) : ~is_native(effects[i])}
IsNotNative(e) == ~is_native(e)

RECURSIVE SceneOpsInOrder(_)
SceneOpsInOrder(es) ==
    IF es = <<>> THEN <<>>
    ELSE apply_to_scene(Head(es), <<>>) \o SceneOpsInOrder(Tail(es))

(* C2: the scene operations are issued in the order of the native effects  *)
(* in the input list and deferred_effects keeps the input's relative       *)
(* order; z_index reorders nothing.                                        *)
C2_InputOrderKept ==
    IsSome(result) =>
        /\ scene = SceneOpsInOrder(SelectSeq(effects, is_native))
        /\ result[1].deferred_effects = SelectSeq(effects, IsNotNative)

C2_Witness ==
    /\ IsSome(result)
    /\ \E i, j \in NativeIndices :
          /\ i < j
          /\ effects[i].z_index > effects[j].z_index
          /\ effects[i].effect_type = "Clip"
          /\ effects[j].effect_type = "BackdropBlur"
          /\ IsSome(effects[j].blur_params)
          /\ scene = <<[op |-> "push_clip_layer", rect |-> RectOf(effects[i].region)],
                       [op |-> "fill", rect |-> RectOf(effects[j].region)]>>

----------------------------------------------------------------------------
(* Claims about the effect model, checked under SpecEffect *)

ParamFields == {"blur_params", "transform_params", "color_params"}
PopulatedFields(e) == {f \in ParamFields : IsSome(e[f])}
FieldOfKind(kind) ==
    CASE kind = "BackdropBlur" -> {"blur_params"}
      [] kind = "Transform2D" -> {"transform_params"}
      [] kind = "ColorAdjust" -> {"color_params"}
      [] kind = "Clip" -> {}

(* C3: exactly one of is_native() and requires_gpu_compute() is true;      *)
(* is_native() holds for BackdropBlur, Transform2D and Clip,               *)
(* requires_gpu_compute() for ColorAdjust only.                            *)
C3_NativeXorGpu ==
    IsSome(eff) =>
        /\ is_native(eff[1]) # requires_gpu_compute(eff[1])
        /\ is_native(eff[1]) <=> eff[1].effect_type \in {"BackdropBlur", "Transform2D", "Clip"}
        /\ requires_gpu_compute(eff[1]) <=> eff[1].effect_type = "ColorAdjust"

C3_Witness ==
    /\ IsSome(eff)
    /\ eff[1].effect_type = "Clip"
    /\ eff[1].z_index # ClipZIndex
    /\ is_native(eff[1])
    /\ ~requires_gpu_compute(eff[1])

(* C4 as stated: every constructed Effect has exactly one parameter field  *)
(* populated, the one matching effect_type.  Effect::clip populates none.  *)
C4_ExactlyOneParamField ==
    IsSome(eff) =>
        /\ Cardinality(PopulatedFields(eff[1])) = 1
        /\ PopulatedFields(eff[1]) = FieldOfKind(eff[1].effect_type)

(* C4 amended: a constructed Effect has at most one parameter field        *)
(* populated: exactly the one matching effect_type for BackdropBlur,       *)
(* Transform2D and ColorAdjust, and none for Clip; with_region and         *)
(* with_z_index keep it so.                                                *)
C4_ParamFieldMatchesKind ==
    IsSome(eff) =>
        /\ PopulatedFields(eff[1]) = FieldOfKind(eff[1].effect_type)
        /\ eff[1].effect_type # "Clip" => Cardinality(PopulatedFields(eff[1])) = 1
        /\ eff[1].effect_type = "Clip" => PopulatedFields(eff[1]) = {}

C4_Witness ==
    /\ IsSome(eff)
    /\ eff[1].effect_type = "ColorAdjust"
    /\ eff[1].z_index = 5
    /\ eff[1].region # Region(0, 0, 0, 0)
    /\ PopulatedFields(eff[1]) = {"color_params"}

----------------------------------------------------------------------------
(* Claims about the element tracker called from one thread, checked under  *)
(* Spec.  `last` is the last call; a call made while the lock is poisoned  *)
(* is one that finds poisoned = TRUE, poisoning being permanent.           *)

LastIsCall == last.op \notin {"new", "panic"}

(* C6: with a poisoned lock every operation returns its safe empty result: *)
(* get none; query, query_region and ids an empty list; len and            *)
(* cleanup_stale 0; is_empty true; track, update_position, remove and      *)
(* clear leave the map unchanged.                                          *)
C6_PoisonedDegrades ==
    (poisoned /\ LastIsCall) =>
        /\ last.op = "get" => last.ret = None
        /\ last.op \in {"query", "query_region", "ids"} => last.ret = {}
        /\ last.op \in {"len", "cleanup_stale"} => last.ret = 0
        /\ last.op = "is_empty" => last.ret = TRUE
        /\ last.op \in {"track", "update_position", "remove", "clear", "cleanup_stale"} =>
              elements = last.pre

C6_Witness ==
    /\ poisoned
    /\ last.op = "track"
    /\ elements # {}
    /\ ~contains_key(elements, last.element.id)

(* C7: cleanup_stale(max_age) removes exactly the elements whose age, call *)
(* time minus last_updated, is strictly greater than max_age, leaves the   *)
(* others unchanged and returns the number it removed.                     *)
C7_CleanupRemovesExactlyStale ==
    (last.op = "cleanup_stale" /\ ~poisoned) =>
        /\ elements = {en \in last.pre : ~(last.now - en[2].last_updated > last.max_age)}
        /\ last.ret = Cardinality(last.pre) - Cardinality(elements)
        /\ last.ret = Cardinality(last.pre \ elements)

C7_Witness ==
    /\ last.op = "cleanup_stale"
    /\ ~poisoned
    /\ last.max_age = 1
    /\ last.ret = 1
    /\ \E en \in elements : last.now - en[2].last_updated = last.max_age

(* the cleanup_stale call that directly follows update_position(id, _) on a tracked id *)
CleanupAfterUpdate ==
    /\ last.op = "cleanup_stale"
    /\ ~poisoned
    /\ IsSome(last.after)
    /\ contains_key(last.pre, last.after[1][1])

UpdatedId == last.after[1][1]
SinceUpdate == last.now - last.after[1][2]

(* C8 as stated, for a tracker holding the one element: cleanup_stale(0)   *)
(* called right after update_position removes nothing, and                 *)
(* cleanup_stale(max_age) called more than max_age after the update        *)
(* removes the element and returns 1.  The clock may have advanced         *)
(* between the two calls, and then cleanup_stale(0) removes the element.   *)
C8_CleanupZeroAfterUpdateKeeps ==
    (CleanupAfterUpdate /\ Cardinality(last.pre) = 1) =>
        /\ last.max_age = 0 => (last.ret = 0 /\ contains_key(elements, UpdatedId))
        /\ SinceUpdate > last.max_age => (last.ret = 1 /\ elements = {})

(* C8 amended: cleanup_stale(0) right after update_position keeps the      *)
(* element when the clock has not advanced since the update and removes it *)
(* when it has; cleanup_stale(max_age) called more than max_age after the  *)
(* update removes the element, and returns 1 when it is the only one       *)
(* tracked.                                                                *)
C8_CleanupAfterUpdateByAge ==
    CleanupAfterUpdate =>
        /\ (last.max_age = 0 /\ SinceUpdate = 0) =>
              /\ map_get(elements, UpdatedId) = map_get(last.pre, UpdatedId)
              /\ Cardinality(last.pre) = 1 => last.ret = 0
        /\ (last.max_age = 0 /\ SinceUpdate > 0) => ~contains_key(elements, UpdatedId)
        /\ SinceUpdate > last.max_age =>
              /\ ~contains_key(elements, UpdatedId)
              /\ last.ret >= 1
              /\ Cardinality(last.pre) = 1 => (last.ret = 1 /\ elements = {})

C8_Witness ==
    /\ CleanupAfterUpdate
    /\ Cardinality(last.pre) = 1
    /\ last.max_age = 1
    /\ SinceUpdate > last.max_age
    /\ last.ret = 1
    /\ elements = {}

(* C9: update_position on an untracked id changes nothing; on a tracked id *)
(* it replaces the region and refreshes last_updated, and leaves id,       *)
(* element_type, classes and every other element unchanged.                *)
C9_UpdatePositionFrame ==
    (last.op = "update_position" /\ ~poisoned) =>
        IF ~contains_key(last.pre, last.id)
        THEN elements = last.pre
        ELSE LET old == map_get(last.pre, last.id)[1]
             IN  /\ keys(elements) = keys(last.pre)
                 /\ Cardinality(elements) = Cardinality(last.pre)
                 /\ map_get(elements, last.id) =
                        Some(TrackedElement(old.id, last.region, old.element_type, old.classes, last.now))
                 /\ \A en \in last.pre : en[1] # last.id => en \in elements

C9_Witness ==
    /\ last.op = "update_position"
    /\ ~poisoned
    /\ contains_key(last.pre, last.id)
    /\ Cardinality(last.pre) = 2
    /\ map_get(last.pre, last.id)[1].region # last.region
    /\ map_get(last.pre, last.id)[1].last_updated < last.now
    /\ map_get(last.pre, last.id)[1].classes # <<>>

(* C10: the tracker holds at most one element per id, stored under its own *)
(* id; track inserts or replaces the whole previous element; len() is the  *)
(* number of distinct ids tracked and not since removed.                   *)
C10_OneElementPerId ==
    /\ \A en1, en2 \in elements : en1[1] = en2[1] => en1 = en2
    /\ \A en \in elements : en[2].id = en[1]
    /\ (last.op = "track" /\ ~poisoned) =>
          /\ map_get(elements, last.element.id) = Some(last.element)
          /\ \A en \in elements : en[1] # last.element.id => en \in last.pre
          /\ \A en \in last.pre : en[1] # last.element.id => en \in elements
          /\ Cardinality(keys(elements)) = Cardinality(keys(last.pre) \cup {last.element.id})
    /\ ~poisoned => keys(elements) = live
    /\ (last.op = "len" /\ ~poisoned) => last.ret = Cardinality(live)

C10_Witness ==
    /\ last.op = "track"
    /\ ~poisoned
    /\ contains_key(last.pre, last.element.id)
    /\ Cardinality(elements) = 2
    /\ LET old == map_get(last.pre, last.element.id)[1]
       IN  /\ old.region # last.element.region
           /\ old.element_type # last.element.element_type
           /\ old.last_updated # last.element.last_updated

----------------------------------------------------------------------------
(* Claims about the element tracker shared between threads, checked under  *)
(* SpecConc                                                                *)

(* an update_position call has written the region of `id` and not yet its timestamp *)
HalfUpdated(id) == \E w \in Threads : pc[w] = "set_time" /\ call[w].id = id

Returned(c) == IF c.op = "get" THEN {c.ret[i] : i \in 1..Len(c.ret)} ELSE c.ret

(* C5: get, query and query_region never return an element that mixes two  *)
(* updates: no element is read between the two writes of update_region,    *)
(* so what is returned is the complete state left by one track or          *)
(* update_position call.                                                   *)
C5_NoHalfUpdatedRead ==
    [][\A t \in Threads :
          (pc[t] = "read" /\ pc'[t] = "done") =>
              \A e \in Returned(call'[t]) :
                  /\ ~HalfUpdated(e.id)
                  /\ <<e.id, e>> \in elements]_vars

C5_Witness ==
    \E t, w \in Threads :
        /\ pc[t] = "lock"
        /\ call[t].op \in {"get", "query", "query_region"}
        /\ pc[w] = "set_time"
        /\ lock = w
        /\ contains_key(elements, call[w].id)
        /\ map_get(elements, call[w].id)[1].region = call[w].region
        /\ map_get(elements, call[w].id)[1].last_updated < clock
        /\ call[t].op = "get" => call[t].id = call[w].id

----------------------------------------------------------------------------
(* Further claims about the element tracker called from one thread,       *)
(* checked under Spec                                                      *)

(* C11: after remove(id), get(id) returns none and the element appears in  *)
(* no query, query_region, ids or len; remove of an untracked id leaves    *)
(* the tracker unchanged; no other element is affected.                    *)
C11_RemoveFrame ==
    (last.op = "remove" /\ ~poisoned) =>
        /\ map_get(elements, last.id) = None
        /\ \A sel \in QuerySelectors : \A e \in query_of(elements, sel) : e.id # last.id
        /\ \A r \in QueryRegions : \A e \in query_region_of(elements, r) : e.id # last.id
        /\ last.id \notin keys(elements)
        /\ len_of(elements, poisoned) =
              Cardinality(last.pre) - (IF contains_key(last.pre, last.id) THEN 1 ELSE 0)
        /\ ~contains_key(last.pre, last.id) => elements = last.pre
        /\ \A en \in last.pre : en[1] # last.id => en \in elements
        /\ elements \subseteq last.pre

C11_Witness ==
    /\ last.op = "remove"
    /\ ~poisoned
    /\ contains_key(last.pre, last.id)
    /\ Cardinality(last.pre) = 2
    /\ Cardinality(elements) = 1
    /\ ~contains_key(elements, last.id)

(* the selector semantics of the claim, on the selector's text *)
SelectorDenotes(selector, e) ==
    CASE selector.first = "#" -> e.id = selector.rest
      [] selector.first = "." -> \E i \in DOMAIN e.classes : e.classes[i] = selector.rest
      [] OTHER -> e.element_type = selector.whole

(* C12: query(selector) returns exactly the tracked elements matching the  *)
(* selector: "#id" by id (at most one), ".class" by membership in the      *)
(* class list, anything else by exact element_type.                        *)
C12_QueryMatchesSelector ==
    (last.op = "query" /\ ~poisoned) =>
        /\ \A e \in last.ret : e \in values(elements) /\ SelectorDenotes(last.selector, e)
        /\ \A e \in values(elements) : SelectorDenotes(last.selector, e) => e \in last.ret
        /\ last.selector.first = "#" => Cardinality(last.ret) <= 1

C12_Witness ==
    /\ last.op = "query"
    /\ ~poisoned
    /\ last.selector.first = "."
    /\ Cardinality(last.ret) = 1
    /\ Cardinality(elements) = 2

(* one rectangle lies fully to a side of the other, touching included *)
FullyToASide(a, b) ==
    \/ a.x + a.width <= b.x
    \/ b.x + b.width <= a.x
    \/ a.y + a.height <= b.y
    \/ b.y + b.height <= a.y

(* C13: query_region(r) returns exactly the tracked elements whose region  *)
(* intersects r: an element whose region only touches r along an edge is   *)
(* not returned and no intersecting element is omitted.                    *)
C13_QueryRegionIntersecting ==
    (last.op = "query_region" /\ ~poisoned) =>
        /\ \A e \in last.ret : e \in values(elements) /\ ~FullyToASide(e.region, last.region)
        /\ \A e \in values(elements) : ~FullyToASide(e.region, last.region) => e \in last.ret

C13_Witness ==
    /\ last.op = "query_region"
    /\ ~poisoned
    /\ Cardinality(last.ret) = 1
    /\ \E e \in values(elements) :
          /\ e \notin last.ret
          /\ e.region.x = last.region.x + last.region.width
          /\ e.region.y < last.region.y + last.region.height
          /\ last.region.y < e.region.y + e.region.height

----------------------------------------------------------------------------
(* Claims about Region, checked under SpecRegion *)

(* the f32 sum of a coordinate and a size does not exceed the coordinate *)
NoExtent(r) == f32(r.x + r.width) <= r.x \/ f32(r.y + r.height) <= r.y

(* C16 as stated: for every region a, zero width or height included,       *)
(* a.intersects(a) is true.                                                *)
C16_SelfIntersects ==
    (rg.op = "intersects" /\ rg.a = rg.b) => rg.ret

(* C16: a.intersects(a) is false exactly when x + width <= x or            *)
(* y + height <= y as computed in f32: false for every region of zero or   *)
(* negative width or height, true for a region of positive width and       *)
(* height whose sums are exact.                                            *)
C16_SelfIntersectsUnlessEmpty ==
    (rg.op = "intersects" /\ rg.a = rg.b) =>
        /\ rg.ret <=> ~NoExtent(rg.a)
        /\ (rg.a.width <= 0 \/ rg.a.height <= 0) => ~rg.ret
        /\ (/\ rg.a.width > 0
            /\ rg.a.height > 0
            /\ rg.a.x + rg.a.width < F32Exact
            /\ rg.a.y + rg.a.height < F32Exact) => rg.ret

C16_Witness ==
    /\ rg.op = "intersects"
    /\ rg.a = rg.b
    /\ rg.a.width = 0
    /\ rg.a.height > 0
    /\ ~rg.ret

(* C17 as stated: a.intersection(b) is none exactly when a.intersects(b)   *)
(* is false, and when it is present with value i, i.intersection(i) is     *)
(* present and equal to i.                                                 *)
C17_IntersectionIdempotent ==
    /\ rg.op = "intersection" => (rg.ret = None <=> ~intersects(rg.a, rg.b))
    /\ rg.op = "self_intersection" => rg.ret = Some(rg.i)

(* C17: a.intersection(b) is none exactly when a.intersects(b) is false;   *)
(* when it is present with value i, i.intersection(i) is none if           *)
(* x + width <= x or y + height <= y for i as computed in f32 (so for      *)
(* every i of zero width or height), and otherwise it is present with      *)
(* i's x and y and with the sizes (x + width) - x and (y + height) - y as  *)
(* computed in f32, which are i's sizes when the sums are exact.           *)
C17_IntersectionIdempotentWhenProper ==
    /\ rg.op = "intersection" => (rg.ret = None <=> ~intersects(rg.a, rg.b))
    /\ rg.op = "self_intersection" =>
          /\ NoExtent(rg.i) => rg.ret = None
          /\ ~NoExtent(rg.i) =>
                rg.ret = Some(Region(rg.i.x, rg.i.y,
                                     f32(f32(rg.i.x + rg.i.width) - rg.i.x),
                                     f32(f32(rg.i.y + rg.i.height) - rg.i.y)))
          /\ (/\ rg.i.width > 0
              /\ rg.i.height > 0
              /\ rg.i.x + rg.i.width < F32Exact
              /\ rg.i.y + rg.i.height < F32Exact) => rg.ret = Some(rg.i)

C17_Witness ==
    /\ rg.op = "self_intersection"
    /\ rg.a # rg.b
    /\ rg.i # rg.a
    /\ rg.i # rg.b
    /\ rg.ret = Some(rg.i)

(* C18: a.contract(p) has width >= 0 and height >= 0 for every a and p; a  *)
(* size that 2p would make negative is exactly zero.                       *)
C18_ContractNonNegative ==
    rg.op = "contract" =>
        /\ rg.ret.width >= 0
        /\ rg.ret.height >= 0
        /\ rg.a.width - 2 * rg.padding <= 0 => rg.ret.width = 0
        /\ rg.a.height - 2 * rg.padding <= 0 => rg.ret.height = 0

C18_Witness ==
    /\ rg.op = "contract"
    /\ rg.a.width > 0
    /\ rg.a.width < 2 * rg.padding
    /\ rg.ret.width = 0
    /\ rg.ret.height > 0

(* the claim's precondition of the round trip *)
RoundTripCase ==
    /\ rg.op = "contract_expand"
    /\ rg.padding >= 0
    /\ rg.a.width > 2 * rg.padding
    /\ rg.a.height > 2 * rg.padding

(* C19 as stated: for p >= 0 and width, height > 2p,                       *)
(* a.contract(p).expand(p) equals a in all four fields.                    *)
C19_ContractExpandRoundTrip ==
    RoundTripCase => rg.ret = rg.a

(* x + p, y + p, width - 2p and height - 2p are f32 values *)
RoundTripExact ==
    /\ f32(rg.a.x + rg.padding) = rg.a.x + rg.padding
    /\ f32(rg.a.y + rg.padding) = rg.a.y + rg.padding
    /\ f32(rg.a.width - 2 * rg.padding) = rg.a.width - 2 * rg.padding
    /\ f32(rg.a.height - 2 * rg.padding) = rg.a.height - 2 * rg.padding

(* C19: for p >= 0 and width, height > 2p, a.contract(p).expand(p) equals  *)
(* a in all four fields whenever x + p, y + p, width - 2p and height - 2p  *)
(* are exactly representable in f32.                                       *)
C19_ContractExpandRoundTripExact ==
    (RoundTripCase /\ RoundTripExact) => rg.ret = rg.a

C19_Witness ==
    /\ RoundTripCase
    /\ RoundTripExact
    /\ rg.padding > 0
    /\ rg.a.x > 0
    /\ rg.ret = rg.a

(* C20: contains(px, py) is true exactly when x <= px < x + width and      *)
(* y <= py < y + height, the sums as computed in f32; a region of zero     *)
(* width or height contains no point.                                      *)
C20_ContainsHalfOpen ==
    rg.op = "contains" =>
        /\ rg.ret <=> (/\ rg.a.x <= rg.px
                       /\ rg.px < f32(rg.a.x + rg.a.width)
                       /\ rg.a.y <= rg.py
                       /\ rg.py < f32(rg.a.y + rg.a.height))
        /\ (rg.a.width = 0 \/ rg.a.height = 0) => ~rg.ret

C20_Witness ==
    /\ rg.op = "contains"
    /\ rg.a.width > 0
    /\ rg.px = rg.a.x + rg.a.width
    /\ rg.a.y <= rg.py
    /\ rg.py < rg.a.y + rg.a.height
    /\ ~rg.ret

----------------------------------------------------------------------------
(* Claims about the effect cache, checked under SpecCache *)

(* C14: the effect cache changes only through cache_effects and            *)
(* clear_cache: it holds, per component, the list most recently stored     *)
(* since the last clear_cache, get_cached_effects(c) returns that list     *)
(* (none if there is none), and apply_scene_effects, set_config,           *)
(* get_cached_effects and get_stats leave the cache unchanged.             *)
C14_CacheHoldsLastStored ==
    /\ effect_cache = {<<c, stored[c][1]>> : c \in {d \in Components : IsSome(stored[d])}}
    /\ clast.op = "get_cached_effects" => clast.ret = stored[clast.component_id]
    /\ clast.op \in {"apply_scene_effects", "set_config", "get_cached_effects", "get_stats"} =>
          effect_cache = clast.pre

C14_Witness ==
    /\ clast.op = "get_cached_effects"
    /\ IsSome(clast.ret)
    /\ clast.ret[1] # <<>>
    /\ Cardinality(effect_cache) = 2
    /\ \E en \in effect_cache : en[1] # clast.component_id /\ en[2] # clast.ret[1]

(* C15 as stated: the number of cached components reported by get_stats    *)
(* never exceeds config.max_cache_size.                                    *)
C15_CacheWithinMaxSize ==
    clast.op = "get_stats" => clast.ret.cached_components <= config.max_cache_size

----------------------------------------------------------------------------
(* Claims about SecurityGating, checked under SpecGating *)

(* the point lies in the half-open rectangle of the region *)
InHalfOpen(r, x, y) ==
    /\ r.x <= x
    /\ x < r.x + r.width
    /\ r.y <= y
    /\ y < r.y + r.height

(* C21: is_point_secured(x, y) is true if and only if at least one region  *)
(* added with add_security_region contains (x, y); the result is the same  *)
(* whether gating is enabled or disabled.                                  *)
C21_PointSecuredIffContained ==
    glast.op = "is_point_secured" =>
        (glast.ret <=> \E i \in 1..Len(glast.self.security_regions) :
                          InHalfOpen(glast.self.security_regions[i], glast.x, glast.y))

C21_Witness ==
    /\ glast.op = "is_point_secured"
    /\ ~glast.self.enabled
    /\ Len(glast.self.security_regions) = 2
    /\ ~InHalfOpen(glast.self.security_regions[1], glast.x, glast.y)
    /\ glast.ret

----------------------------------------------------------------------------
(* Claims about feature extraction, checked under SpecFeature *)

KindOfFeature(feature_type) ==
    CASE feature_type = "BackdropFilter" -> "BackdropBlur"
      [] feature_type = "Transform" -> "Transform2D"
      [] feature_type = "ColorAdjust" -> "ColorAdjust"
      [] feature_type = "Clip" -> "Clip"

(* C22: features_to_effects returns a list of the same length in the same  *)
(* order, the i-th effect having the kind of the i-th feature; a malformed *)
(* value never drops a feature.                                            *)
C22_OneEffectPerFeature ==
    IsSome(fx.ret) =>
        /\ Len(fx.ret[1]) = Len(fx.features)
        /\ \A i \in 1..Len(fx.features) :
              /\ i <= Len(fx.ret[1])
              /\ fx.ret[1][i].effect_type = KindOfFeature(fx.features[i].feature_type)
              /\ fx.features[i].feature_type # "Clip" =>
                    fx.ret[1][i].selector = fx.features[i].selector

C22_Witness ==
    /\ IsSome(fx.ret)
    /\ Len(fx.ret[1]) = 2
    /\ fx.features[1].feature_type = "BackdropFilter"
    /\ fx.features[1].original_value = "none"
    /\ fx.features[2].feature_type = "ColorAdjust"
    /\ fx.features[2].original_value = "brightness(x"

(* the backdrop-filter features of the list and the radius extracted for each *)
BlurFeatures == {i \in 1..Len(fx.features) : fx.features[i].feature_type = "BackdropFilter"}
RadiusOf(i) == fx.ret[1][i].blur_params[1].radius

(* the numbers written in the raw values, and how they are written *)
WrittenNumbers == {-5, 5, 7, 10}
NumberText(n) == CASE n = -5 -> "-5" [] n = 5 -> "5" [] n = 7 -> "7" [] n = 10 -> "10"
Spaces(k) == CASE k = 0 -> "" [] k = 1 -> " " [] k = 2 -> "  "
Pxs(k) == CASE k = 0 -> "" [] k = 1 -> "px" [] k = 2 -> "pxpx"

(* the text is the number n, in whitespace, with px after it *)
Writes(text, n) ==
    \E a \in 0..2, b \in 0..2, c \in 0..2, k \in 0..2 :
        text = Spaces(a) \o NumberText(n) \o Spaces(b) \o Pxs(k) \o Spaces(c)

(* the text between the first "blur(" and the next ")", if both are there *)
BlurTokenAt(v) ==
    {i \in 1..(Len(v) - 4) : /\ SubSeq(v, i, i + 4) = "blur("
                             /\ \A h \in 1..(i - 1) : SubSeq(v, h, h + 4) # "blur("}

ClosingAfter(v, i) ==
    {j \in (i + 5)..Len(v) : /\ SubSeq(v, j, j) = ")"
                             /\ \A h \in (i + 5)..(j - 1) : SubSeq(v, h, h) # ")"}

BlurArgument(v) ==
    UNION {{SubSeq(v, i + 5, j - 1) : j \in ClosingAfter(v, i)} : i \in BlurTokenAt(v)}

C24_BlurParamsInRange ==
    IsSome(fx.ret) =>
        \A i \in BlurFeatures :
            /\ IsSome(fx.ret[1][i].blur_params)
            /\ RadiusOf(i) >= 0
            /\ fx.ret[1][i].blur_params[1].passes >= 1

----------------------------------------------------------------------------
(* Further claims about the effect model, checked under SpecEffect *)

(* C25 as stated: the z_index of an effect built by Effect::clip is        *)
(* greater than or equal to the z_index of every effect built through the  *)
(* constructors followed by any with_z_index.                              *)
C25_ClipZIndexIsMaximum ==
    IsSome(eff) => \A r \in Regions : eff[1].z_index <= clip(r).z_index

----------------------------------------------------------------------------
(* Further claims about the compositor, checked under SpecCompositor *)

LayerPushes == {i \in 1..Len(scene) : scene[i].op \in {"push_layer", "push_clip_layer"}}
Fills == {i \in 1..Len(scene) : scene[i].op = "fill"}
EffectsOfType(types) == {i \in 1..Len(effects) : effects[i].effect_type \in types}

(* C26 as stated: apply_scene_effects only pushes layers: after a call the *)
(* scene holds one more open layer per Transform2D and Clip effect of the  *)
(* input, one fill and no layer per BackdropBlur effect, and nothing for a *)
(* ColorAdjust effect.                                                     *)
C26_OnlyPushesOnePerLayerEffect ==
    IsSome(result) =>
        /\ \A i \in 1..Len(scene) : scene[i].op \in {"fill", "push_layer", "push_clip_layer"}
        /\ Cardinality(LayerPushes) = Cardinality(EffectsOfType({"Transform2D", "Clip"}))
        /\ Cardinality(Fills) = Cardinality(EffectsOfType({"BackdropBlur"}))

(* C30 as stated: each effect counted in native_applied has caused exactly *)
(* one scene operation, so the count never exceeds what was drawn or       *)
(* pushed.                                                                 *)
C30_NativeAppliedWasDrawn ==
    IsSome(result) => result[1].native_applied = Len(scene)

----------------------------------------------------------------------------
(* Claims about every tracker method called from several threads, checked  *)
(* under SpecAll and, for what eventually happens, under SpecAllFair       *)

InCall(t) == pc[t] # "idle"
HoldsLock(t) == pc[t] \in {"insert", "set_region", "set_time", "read", "remove", "clear",
                            "scan", "remove_all"}

(* C27: every tracker operation holds the lock only for its own duration   *)
(* and never asks for it while holding it: the lock is held exactly by a   *)
(* thread inside the locked part of a call, it is free whenever no call is *)
(* in progress, and under fair scheduling every call eventually returns.   *)
C27_CallsReturnLockFreed ==
    /\ [](\A t \in Threads : (lock = t) <=> HoldsLock(t))
    /\ []((\A t \in Threads : ~InCall(t)) => lock = 0)
    /\ \A t \in Threads : InCall(t) ~> ~InCall(t)

C27_Witness ==
    \E t, w \in Threads :
        /\ pc[t] = "remove_all"
        /\ lock = t
        /\ pc[w] = "lock2"
        /\ call[w].op = "cleanup_stale"

CleanupReturned(t) == pc[t] = "done" /\ call[t].op = "cleanup_stale"

(* C28 as stated: the count returned by cleanup_stale equals the number of *)
(* entries that the call removed from the map.                             *)
C28_CountIsWhatWasRemoved ==
    \A t \in Threads : CleanupReturned(t) => call[t].ret = Cardinality(call[t].removed)

(* C29 as stated: cleanup_stale evicts no element whose last_updated is    *)
(* within max_age at the moment of removal; an element refreshed or        *)
(* re-inserted after the scan is still tracked when the call returns.      *)
C29_OnlyStaleRemoved ==
    \A t \in Threads :
        CleanupReturned(t) =>
            \A en \in call[t].removed :
                call[t].removed_at - en[2].last_updated > call[t].max_age

====
